---- MODULE Spec2Model ----
(***************************************************************************)
(* rust-iff: validation of IFF chunk identifiers (ChunkId) and of chunks   *)
(* (Chunk).  Bytes are integers 0..255, byte slices and fixed arrays are   *)
(* sequences of bytes, a &str is the sequence of its UTF-8 bytes.          *)
(* Rust indexes from 0; the sequences here are indexed from 1, so the      *)
(* byte at Rust index i is s[i + 1] (operator At).                         *)
(***************************************************************************)
EXTENDS Integers, Sequences, FiniteSets, TLC

VARIABLES
    slice,        \* the source bytes handed to ChunkId::new
    size,         \* the declared size handed to Chunk::new (an i32)
    data,         \* the data view handed to Chunk::new
    usize_bits,   \* width of usize on the target the crate is built for
    res,          \* result of iff::chunkid::ChunkId::new (src/lib.rs)
    reads,        \* Rust indices of slice that ChunkId::new read
    text,         \* result of ChunkId::to_str (src/lib.rs)
    reserved,     \* result of ChunkId::is_reserved (src/lib.rs)
    res2,         \* result of ChunkId::new of src/chunkid.rs
    reserved2,    \* result of ChunkId::is_reserved of src/chunkid.rs
    chunk,        \* result of iff::Chunk::new (src/lib.rs)
    chunk2,       \* result of Chunk::new of src/chunk.rs
    len,          \* result of Chunk::len
    shown         \* result of format!("{}", chunk)

vars == <<slice, size, data, usize_bits, res, reads, text, reserved,
          res2, reserved2, chunk, chunk2, len, shown>>

---------------------------------------------------------------------------
(* Bounds of the model *)

\* longest source slice handed to ChunkId::new
MaxLen == 5
\* longest data view handed to Chunk::new
MaxData == 2

---------------------------------------------------------------------------
(* Values *)

Unset == [tag |-> "Unset"]
Panic == [tag |-> "Panic"]
Moved == [tag |-> "Moved"]
None == [tag |-> "None"]
Ok(id) == [tag |-> "Ok", id |-> id]
Err(e) == [tag |-> "Err", err |-> e]
Str(bytes) == [tag |-> "Str", bytes |-> bytes]
Bool(b) == [tag |-> "Bool", val |-> b]
I32(n) == [tag |-> "I32", val |-> n]

\* the byte at Rust index i of s; -1, which is no byte, where the index is out
\* of bounds (Outcome turns such a read into the panic it is)
At(s, i) == IF i >= 0 /\ i < Len(s) THEN s[i + 1] ELSE -1

\* a call that read the Rust indices rd of s: it panics when one of them is
\* out of bounds, and returns out otherwise
Outcome(s, rd, out) ==
    [out |-> IF \E i \in rd : i >= Len(s) THEN Panic ELSE out, reads |-> rd]

---------------------------------------------------------------------------
(* iff::chunkid of src/lib.rs *)

LOWER_CHAR_RANGE == 32
UPPER_CHAR_RANGE == 126
SPACE_CHAR_CODE == 32

\* the upper end of the range is not tested
is_allowed_char_no_upper(chr) == chr >= 0 /\ chr >= LOWER_CHAR_RANGE

is_allowed_char(chr) ==
    chr >= 0 /\ chr >= LOWER_CHAR_RANGE /\ chr <= UPPER_CHAR_RANGE

\* for idx in 0..2: the last adjacent pair is never looked at
has_precede_spaces_short(id) ==
    \E idx \in 0..1 :
        At(id, idx) = SPACE_CHAR_CODE /\ At(id, idx + 1) # SPACE_CHAR_CODE

has_precede_spaces(id) ==
    \E idx \in 0..2 :
        At(id, idx) = SPACE_CHAR_CODE /\ At(id, idx + 1) # SPACE_CHAR_CODE

\* Rust indices that slice[0..4].iter().all(is_allowed_char) reads: all()
\* stops at the first byte that is not allowed
all_allowed_reads(s) ==
    {i \in 0..3 : \A j \in 0..(i - 1) : is_allowed_char(At(s, j))}

\* Rust indices that has_precede_spaces reads: the loop returns at the
\* first pair found, and && reads id[idx + 1] only when id[idx] is a space
has_precede_spaces_reads(s) ==
    LET hit(idx) == At(s, idx) = SPACE_CHAR_CODE /\ At(s, idx + 1) # SPACE_CHAR_CODE
        run(idx) == \A j \in 0..(idx - 1) : ~hit(j)
    IN  {idx \in 0..2 : run(idx)}
        \cup {idx + 1 : idx \in {k \in 0..2 : run(k) /\ At(s, k) = SPACE_CHAR_CODE}}

\* "LIST", "LIS1".."LIS9", "FORM", "FOR1".."FOR9", "CAT ", "CAT1".."CAT9",
\* "PROP", "    ": each &str as its UTF-8 bytes
RESERVED_CHUNK_IDS ==
    << <<76,73,83,84>>, <<76,73,83,49>>, <<76,73,83,50>>, <<76,73,83,51>>,
       <<76,73,83,52>>, <<76,73,83,53>>, <<76,73,83,54>>, <<76,73,83,55>>,
       <<76,73,83,56>>, <<76,73,83,57>>,
       <<70,79,82,77>>, <<70,79,82,49>>, <<70,79,82,50>>, <<70,79,82,51>>,
       <<70,79,82,52>>, <<70,79,82,53>>, <<70,79,82,54>>, <<70,79,82,55>>,
       <<70,79,82,56>>, <<70,79,82,57>>,
       <<67,65,84,32>>, <<67,65,84,49>>, <<67,65,84,50>>, <<67,65,84,51>>,
       <<67,65,84,52>>, <<67,65,84,53>>, <<67,65,84,54>>, <<67,65,84,55>>,
       <<67,65,84,56>>, <<67,65,84,57>>,
       <<80,82,79,80>>,
       <<32,32,32,32>> >>

\* the spacing rule is checked before the character set
ChunkId_new_spacing_first(s) ==
    IF Len(s) < 4 THEN Outcome(s, {}, Err("ShortLength"))
    ELSE IF has_precede_spaces(s)
        THEN Outcome(s, has_precede_spaces_reads(s), Err("SpacePrecedeLetter"))
    ELSE IF ~(\A i \in 0..3 : is_allowed_char(At(s, i)))
        THEN Outcome(s, has_precede_spaces_reads(s) \cup all_allowed_reads(s),
                     Err("UnsupportedChar"))
    ELSE Outcome(s, 0..3, Ok(<<At(s, 0), At(s, 1), At(s, 2), At(s, 3)>>))

\* the whole slice, not slice[0..4], is checked for allowed characters
ChunkId_new_whole_slice(s) ==
    IF Len(s) < 4 THEN Outcome(s, {}, Err("ShortLength"))
    ELSE IF ~(\A i \in 0..(Len(s) - 1) : is_allowed_char(At(s, i)))
        THEN Outcome(s, 0..(Len(s) - 1), Err("UnsupportedChar"))
    ELSE IF has_precede_spaces(s)
        THEN Outcome(s, 0..(Len(s) - 1), Err("SpacePrecedeLetter"))
    ELSE Outcome(s, 0..(Len(s) - 1), Ok(<<At(s, 0), At(s, 1), At(s, 2), At(s, 3)>>))

\* the character set is checked before the length: slice[0..4] of a shorter
\* slice is out of range
ChunkId_new_chars_first(s) ==
    IF ~(\A i \in 0..3 : is_allowed_char(At(s, i)))
        THEN Outcome(s, all_allowed_reads(s), Err("UnsupportedChar"))
    ELSE IF Len(s) < 4 THEN Outcome(s, 0..3, Err("ShortLength"))
    ELSE IF has_precede_spaces(s)
        THEN Outcome(s, 0..3, Err("SpacePrecedeLetter"))
    ELSE Outcome(s, 0..3, Ok(<<At(s, 0), At(s, 1), At(s, 2), At(s, 3)>>))

\* ChunkId::new: its result and the Rust indices of the slice it read
ChunkId_new(s) ==
    IF Len(s) < 4 THEN Outcome(s, {}, Err("ShortLength"))
    ELSE IF ~(\A i \in 0..3 : is_allowed_char(At(s, i)))
        THEN Outcome(s, all_allowed_reads(s), Err("UnsupportedChar"))
    ELSE IF has_precede_spaces(s)
        THEN Outcome(s, all_allowed_reads(s) \cup has_precede_spaces_reads(s),
                     Err("SpacePrecedeLetter"))
    ELSE Outcome(s, 0..3, Ok(<<At(s, 0), At(s, 1), At(s, 2), At(s, 3)>>))

\* std::str::from_utf8 accepts exactly the well-formed UTF-8 byte sequences
RECURSIVE from_utf8_ok(_, _)
from_utf8_ok(b, i) ==
    LET n == Len(b)
        cont(k) == k < n /\ At(b, k) >= 128 /\ At(b, k) <= 191
        c == At(b, i)
    IN  IF i >= n THEN TRUE
        ELSE IF c < 128 THEN from_utf8_ok(b, i + 1)
        ELSE IF c >= 194 /\ c <= 223 THEN cont(i + 1) /\ from_utf8_ok(b, i + 2)
        ELSE IF c >= 224 /\ c <= 239 THEN
            /\ cont(i + 1) /\ cont(i + 2)
            /\ (c = 224 => At(b, i + 1) >= 160)
            /\ (c = 237 => At(b, i + 1) <= 159)
            /\ from_utf8_ok(b, i + 3)
        ELSE IF c >= 240 /\ c <= 244 THEN
            /\ cont(i + 1) /\ cont(i + 2) /\ cont(i + 3)
            /\ (c = 240 => At(b, i + 1) >= 144)
            /\ (c = 244 => At(b, i + 1) <= 143)
            /\ from_utf8_ok(b, i + 4)
        ELSE FALSE

\* str::from_utf8(&self.0[0..]).unwrap(): the same bytes as a &str, or a panic
ChunkId_to_str(id) == IF from_utf8_ok(id, 0) THEN Str(id) ELSE Panic

\* the last entry of the table is never compared
ChunkId_is_reserved_skip_last(id) ==
    LET t == ChunkId_to_str(id)
    IN  IF t = Panic THEN Panic
        ELSE Bool(\E k \in 1..(Len(RESERVED_CHUNK_IDS) - 1) :
                      RESERVED_CHUNK_IDS[k] = t.bytes)

\* RESERVED_CHUNK_IDS.contains(&self.to_str())
ChunkId_is_reserved(id) ==
    LET t == ChunkId_to_str(id)
    IN  IF t = Panic THEN Panic
        ELSE Bool(\E k \in 1..Len(RESERVED_CHUNK_IDS) : RESERVED_CHUNK_IDS[k] = t.bytes)

---------------------------------------------------------------------------
(* src/chunkid.rs *)

chunkid_LOWER_CHAR_RANGE == 32
chunkid_UPPER_CHAR_RANGE == 126
chunkid_SPACE_CHAR_CODE == 32

chunkid_is_allowed_char(chr) ==
    chr >= 0 /\ chr >= chunkid_LOWER_CHAR_RANGE /\ chr <= chunkid_UPPER_CHAR_RANGE

chunkid_has_precede_spaces(id) ==
    \E idx \in 0..2 :
        At(id, idx) = chunkid_SPACE_CHAR_CODE /\ At(id, idx + 1) # chunkid_SPACE_CHAR_CODE

\* b"LIST", b"LIS1", ...: references to [u8; 4] arrays
chunkid_RESERVED_CHUNK_IDS ==
    << <<76,73,83,84>>, <<76,73,83,49>>, <<76,73,83,50>>, <<76,73,83,51>>,
       <<76,73,83,52>>, <<76,73,83,53>>, <<76,73,83,54>>, <<76,73,83,55>>,
       <<76,73,83,56>>, <<76,73,83,57>>,
       <<70,79,82,77>>, <<70,79,82,49>>, <<70,79,82,50>>, <<70,79,82,51>>,
       <<70,79,82,52>>, <<70,79,82,53>>, <<70,79,82,54>>, <<70,79,82,55>>,
       <<70,79,82,56>>, <<70,79,82,57>>,
       <<67,65,84,32>>, <<67,65,84,49>>, <<67,65,84,50>>, <<67,65,84,51>>,
       <<67,65,84,52>>, <<67,65,84,53>>, <<67,65,84,54>>, <<67,65,84,55>>,
       <<67,65,84,56>>, <<67,65,84,57>>,
       <<80,82,79,80>>,
       <<32,32,32,32>> >>

chunkid_ChunkId_new(s) ==
    IF Len(s) < 4 THEN Err("ShortLength")
    ELSE IF ~(\A i \in 0..3 : chunkid_is_allowed_char(At(s, i))) THEN Err("UnsupportedChar")
    ELSE IF chunkid_has_precede_spaces(s) THEN Err("SpacePrecedeLetter")
    ELSE Ok(<<At(s, 0), At(s, 1), At(s, 2), At(s, 3)>>)

\* the comparison stops after the first three bytes of each entry
chunkid_ChunkId_is_reserved_prefix(id) ==
    Bool(\E k \in 1..Len(chunkid_RESERVED_CHUNK_IDS) :
             SubSeq(chunkid_RESERVED_CHUNK_IDS[k], 1, 3) = SubSeq(id, 1, 3))

\* RESERVED_CHUNK_IDS.contains(&&self.0): the byte arrays are compared
chunkid_ChunkId_is_reserved(id) ==
    Bool(\E k \in 1..Len(chunkid_RESERVED_CHUNK_IDS) : chunkid_RESERVED_CHUNK_IDS[k] = id)

---------------------------------------------------------------------------
(* iff::Chunk of src/lib.rs, and src/chunk.rs *)

\* a usize as its 16-bit limbs, the most significant first
Limb == 2 ^ 16

\* a saturating conversion: a negative n becomes 0
as_usize_saturating(n) ==
    [k \in 1..((usize_bits \div 16) - 2) |-> 0]
        \o (IF n < 0 THEN <<0, 0>> ELSE << (n \div Limb) % Limb, n % Limb >>)

\* `n as usize` for an i32 n: the 32-bit two's complement pattern of n,
\* sign-extended to the width of usize
as_usize(n) ==
    [k \in 1..((usize_bits \div 16) - 2) |-> IF n < 0 THEN Limb - 1 ELSE 0]
        \o << (n \div Limb) % Limb, n % Limb >>

\* data.len(): a usize; the views of the model are shorter than 2^31 bytes
slice_len(d) ==
    [k \in 1..((usize_bits \div 16) - 2) |-> 0] \o << (Len(d) \div Limb) % Limb, Len(d) % Limb >>

\* a > b for two usize values
usize_gt(a, b) ==
    \E k \in 1..Len(a) : a[k] > b[k] /\ \A j \in 1..(k - 1) : a[j] = b[j]

Some(id, sz, d) == [tag |-> "Some", id |-> id, size |-> sz, data |-> d]

\* the test is >= instead of >
Chunk_new_ge(id, sz, d) ==
    IF usize_gt(as_usize(sz), slice_len(d)) \/ as_usize(sz) = slice_len(d)
        THEN None ELSE Some(id, sz, d)

Chunk_new(id, sz, d) ==
    IF usize_gt(as_usize(sz), slice_len(d)) THEN None ELSE Some(id, sz, d)

Chunk_len(c) == c.size

\* an i32 as "{}" prints it: decimal digits, a leading '-' when negative
RECURSIVE fmt_u(_)
fmt_u(n) == IF n < 10 THEN <<48 + n>> ELSE Append(fmt_u(n \div 10), 48 + (n % 10))

fmt_i32(n) ==
    IF n >= 0 THEN fmt_u(n)
    ELSE LET d == (10 - (n % 10)) % 10
             rest == -((n + d) \div 10)
         IN  <<45>> \o (IF rest = 0 THEN <<>> ELSE fmt_u(rest)) \o <<48 + d>>

\* the length of the view is printed instead of the declared size
Chunk_fmt_data_len(c) ==
    LET t == ChunkId_to_str(c.id)
    IN  IF t = Panic THEN Panic
        ELSE Str(<<67,104,117,110,107,32,34>> \o t.bytes
                 \o <<34,46,32,83,105,122,101,32>> \o fmt_i32(Len(c.data))
                 \o <<32,98,121,116,101,115>>)

\* write!(f, r#"Chunk "{id}". Size {size} bytes"#, id = self.id.to_str(), size = self.size)
Chunk_fmt(c) ==
    LET t == ChunkId_to_str(c.id)
    IN  IF t = Panic THEN Panic
        ELSE Str(<<67,104,117,110,107,32,34>> \o t.bytes
                 \o <<34,46,32,83,105,122,101,32>> \o fmt_i32(c.size)
                 \o <<32,98,121,116,101,115>>)

\* src/chunk.rs
chunk_Chunk_new(id, sz, d) ==
    IF usize_gt(as_usize(sz), slice_len(d)) THEN None ELSE Some(id, sz, d)

---------------------------------------------------------------------------
(* The inputs a caller hands over *)

\* bytes around the ends of the allowed range, a letter, and a byte that is
\* no UTF-8: 0x1F, ' ', 'A', '~', 0x7F, 0xFF
Alphabet == {31, 32, 65, 126, 127, 255}

SeqsUpTo(n) == UNION {[1..k -> Alphabet] : k \in 0..n}

\* the reserved tags as the format lists them: LIST, FORM, PROP, "CAT ",
\* four spaces, and LIS, FOR, CAT followed by a digit 1..9
ListedTags ==
    {<<76,73,83,84>>, <<70,79,82,77>>, <<80,82,79,80>>, <<67,65,84,32>>, <<32,32,32,32>>}
    \cup {p \o <<d>> : p \in {<<76,73,83>>, <<70,79,82>>, <<67,65,84>>}, d \in 49..57}

\* NUL, ' ', '/', '0', '1', '9', ':', 'M', 'T', 'm'
TagBytes == {0, 32, 47, 48, 49, 57, 58, 77, 84, 109}

\* the listed tags with one byte changed
NearTags == {[t EXCEPT ![i] = b] : t \in ListedTags, i \in 1..4, b \in TagBytes}

\* "abcde", "data", "abc", " abc", "a bc", "ab c", "  ab", "a  b", "   a",
\* "abc ", "AB  ", "A   ", "form", "PRO ", [0, 1, 2, 3], [0x20, 0, 'A', 'A']
Examples ==
    {<<97,98,99,100,101>>, <<100,97,116,97>>, <<97,98,99>>, <<32,97,98,99>>,
     <<97,32,98,99>>, <<97,98,32,99>>, <<32,32,97,98>>, <<97,32,32,98>>,
     <<32,32,32,97>>, <<97,98,99,32>>, <<65,66,32,32>>, <<65,32,32,32>>,
     <<102,111,114,109>>, <<80,82,79,32>>, <<0,1,2,3>>, <<32,0,65,65>>}

Sources == SeqsUpTo(MaxLen) \cup ListedTags \cup NearTags \cup Examples

\* "data", "abc ", "    ", "FORM", "A~  " and the rejected " abc"
ChunkSources ==
    {<<100,97,116,97>>, <<97,98,99,32>>, <<32,32,32,32>>, <<70,79,82,77>>,
     <<65,126,32,32>>, <<32,97,98,99>>}

I32_MIN == -2147483647 - 1
I32_MAX == 2147483647

\* every view of at most MaxData bytes over two byte values, and two longer
\* zero-filled ones, so that declared sizes of several digits fit
Views ==
    UNION {[1..k -> {0, 255}] : k \in 0..MaxData}
    \cup {[k \in 1..n |-> 0] : n \in {12, 130}}

Sizes ==
    {I32_MIN, I32_MIN + 1, -65537, -65536, -65535, -130, -1}
    \cup 0..(MaxData + 2)
    \cup {9, 10, 12, 13, 99, 100, 130, 131, 65535, 65536, 65537, I32_MAX}

---------------------------------------------------------------------------
(* The calls *)

\* iff::chunkid::ChunkId::new(slice) (and from_str, which hands it the bytes)
CallNew ==
    /\ res = Unset
    /\ res' = ChunkId_new(slice).out
    /\ reads' = ChunkId_new(slice).reads
    /\ UNCHANGED <<slice, size, data, usize_bits, text, reserved, res2, reserved2,
                   chunk, chunk2, len, shown>>

\* ChunkId::to_str
CallToStr ==
    /\ res.tag = "Ok"
    /\ text = Unset
    /\ text' = ChunkId_to_str(res.id)
    /\ UNCHANGED <<slice, size, data, usize_bits, res, reads, reserved, res2,
                   reserved2, chunk, chunk2, len, shown>>

\* ChunkId::is_reserved
CallIsReserved ==
    /\ res.tag = "Ok"
    /\ reserved = Unset
    /\ reserved' = ChunkId_is_reserved(res.id)
    /\ UNCHANGED <<slice, size, data, usize_bits, res, reads, text, res2,
                   reserved2, chunk, chunk2, len, shown>>

\* ChunkId::new of src/chunkid.rs
CallNew2 ==
    /\ res2 = Unset
    /\ res2' = chunkid_ChunkId_new(slice)
    /\ UNCHANGED <<slice, size, data, usize_bits, res, reads, text, reserved,
                   reserved2, chunk, chunk2, len, shown>>

\* ChunkId::is_reserved of src/chunkid.rs
CallIsReserved2 ==
    /\ res2.tag = "Ok"
    /\ reserved2 = Unset
    /\ reserved2' = chunkid_ChunkId_is_reserved(res2.id)
    /\ UNCHANGED <<slice, size, data, usize_bits, res, reads, text, reserved,
                   res2, chunk, chunk2, len, shown>>

\* iff::Chunk::new(id, size, data): the identifier is moved into the call
CallChunkNew ==
    /\ res.tag = "Ok"
    /\ chunk = Unset
    /\ chunk' = Chunk_new(res.id, size, data)
    /\ res' = Moved
    /\ UNCHANGED <<slice, size, data, usize_bits, reads, text, reserved, res2,
                   reserved2, chunk2, len, shown>>

\* Chunk::new of src/chunk.rs, with an identifier of src/chunkid.rs
CallChunkNew2 ==
    /\ res2.tag = "Ok"
    /\ chunk2 = Unset
    /\ chunk2' = chunk_Chunk_new(res2.id, size, data)
    /\ res2' = Moved
    /\ UNCHANGED <<slice, size, data, usize_bits, res, reads, text, reserved,
                   reserved2, chunk, len, shown>>

\* Chunk::len
CallLen ==
    /\ chunk.tag = "Some"
    /\ len = Unset
    /\ len' = I32(Chunk_len(chunk))
    /\ UNCHANGED <<slice, size, data, usize_bits, res, reads, text, reserved,
                   res2, reserved2, chunk, chunk2, shown>>

\* format!("{}", chunk)
CallDisplay ==
    /\ chunk.tag = "Some"
    /\ shown = Unset
    /\ shown' = Chunk_fmt(chunk)
    /\ UNCHANGED <<slice, size, data, usize_bits, res, reads, text, reserved,
                   res2, reserved2, chunk, chunk2, len>>

NothingCalled ==
    /\ res = Unset /\ reads = {} /\ text = Unset /\ reserved = Unset
    /\ res2 = Unset /\ reserved2 = Unset
    /\ chunk = Unset /\ chunk2 = Unset /\ len = Unset /\ shown = Unset

\* identifiers: any source slice
Init ==
    /\ slice \in Sources
    /\ size = 0 /\ data = <<>> /\ usize_bits = 64
    /\ NothingCalled

Next == CallNew \/ CallToStr \/ CallIsReserved \/ CallNew2 \/ CallIsReserved2

Spec == Init /\ [][Next]_vars

\* chunks: a few source slices, any declared size and view, on a 32-bit and
\* on a 64-bit target
InitChunk ==
    /\ slice \in ChunkSources
    /\ size \in Sizes /\ data \in Views /\ usize_bits \in {32, 64}
    /\ NothingCalled

NextChunk ==
    CallNew \/ CallNew2 \/ CallChunkNew \/ CallChunkNew2 \/ CallLen \/ CallDisplay

SpecChunk == InitChunk /\ [][NextChunk]_vars

---------------------------------------------------------------------------
(* Properties *)

Called(r) == r # Unset

First4(s) == SubSeq(s, 1, 4)
InRange(b) == b >= 32 /\ b <= 126
AllInRange(s) == \A i \in 1..4 : InRange(s[i])
\* a space with a non-space somewhere to its right, adjacent or not
SpaceBeforeNonSpace(s) == \E i, j \in 1..4 : i < j /\ s[i] = 32 /\ s[j] # 32
\* non-spaces followed by spaces
TrailingSpacesOnly(s) ==
    \E k \in 0..4 : \A i \in 1..4 : (i <= k => s[i] # 32) /\ (i > k => s[i] = 32)

\* C1: for a source of at least 4 bytes whose first four are in [0x20, 0x7E],
\* ChunkId::new fails with SpacePrecedeLetter iff some space among the first
\* four has a non-space anywhere to its right, and succeeds otherwise; the
\* accepted identifiers are the non-spaces-then-spaces ones ("AB  ", "A   ",
\* "    ", "abc " accepted; " abc", "a bc", "ab c", "  ab", "a  b", "   a" not)
C1_SpacingRule ==
    (Called(res) /\ Len(slice) >= 4 /\ AllInRange(slice)) =>
        /\ res = Err("SpacePrecedeLetter") <=> SpaceBeforeNonSpace(slice)
        /\ ~SpaceBeforeNonSpace(slice) => res = Ok(First4(slice))
        /\ res.tag = "Ok" <=> TrailingSpacesOnly(slice)
        /\ slice \in {<<65,66,32,32>>, <<65,32,32,32>>, <<32,32,32,32>>, <<97,98,99,32>>}
               => res.tag = "Ok"
        /\ slice \in {<<32,97,98,99>>, <<97,32,98,99>>, <<97,98,32,99>>,
                      <<32,32,97,98>>, <<97,32,32,98>>, <<32,32,32,97>>}
               => res = Err("SpacePrecedeLetter")

\* "a  b": the space at index 1 is followed by a non-space only at index 3
C1_Witness == slice = <<97,32,32,98>> /\ res = Err("SpacePrecedeLetter")

\* C2: for a source of at least 4 bytes with one of the first four outside
\* [0x20, 0x7E], ChunkId::new fails with UnsupportedChar, also when a space
\* is followed by a non-space ([0x20, 0x00, 'A', 'A'] gives UnsupportedChar)
C2_CharsetFirst ==
    (Called(res) /\ Len(slice) >= 4 /\ ~AllInRange(slice)) =>
        res = Err("UnsupportedChar")

C2_Witness == slice = <<32,0,65,65>> /\ res = Err("UnsupportedChar")

\* C3: for a source of 0..3 bytes ChunkId::new fails with ShortLength whatever
\* the bytes are, and reads no byte at an index >= the source's length
C3_ShortLength ==
    (Called(res) /\ Len(slice) < 4) =>
        /\ res = Err("ShortLength")
        /\ \A i \in reads : i < Len(slice)

\* three bytes: a space, a letter after it, and a byte that is not printable
C3_Witness == slice = <<32,65,31>> /\ res = Err("ShortLength")

\* what the first four bytes alone decide
ExpectedOf(f) ==
    IF ~AllInRange(f) THEN Err("UnsupportedChar")
    ELSE IF SpaceBeforeNonSpace(f) THEN Err("SpacePrecedeLetter")
    ELSE Ok(f)

\* C4: the bytes at index 4 and beyond never influence ChunkId::new: they are
\* not read, the result is the one the first four bytes alone decide, and on
\* success to_str() is exactly the first four bytes ("abcde" gives "abcd")
C4_ExtraBytesIgnored ==
    (Called(res) /\ Len(slice) >= 4) =>
        /\ \A i \in reads : i < 4
        /\ res = ExpectedOf(First4(slice))
        /\ Called(text) => text = Str(First4(slice))
        /\ (slice = <<97,98,99,100,101>> /\ Called(text))
               => text = Str(<<97,98,99,100>>)

\* "A~A " followed by a byte that is not printable: accepted, text "A~A "
C4_Witness ==
    /\ slice = <<65,126,65,32,31>>
    /\ res.tag = "Ok" /\ text = Str(<<65,126,65,32>>)

\* C5: for a declared size >= 0, Chunk::new returns a Chunk iff
\* size <= length(data), and then len() is the declared size passed in
C5_SizeWithinData ==
    (Called(chunk) /\ size >= 0) =>
        /\ chunk.tag = "Some" <=> size <= Len(data)
        /\ chunk.tag = "Some" => chunk.size = size /\ chunk.data = data
        /\ Called(len) => len = I32(size)

\* a declared size equal to the length of a non-empty view
C5_Witness ==
    /\ size = Len(data) /\ size > 0
    /\ chunk.tag = "Some" /\ len = I32(size)

\* C6: is_reserved() is true for exactly the 32 listed tags, false for every
\* other identifier, and each of the 32 table entries passes ChunkId::new
C6_ReservedExactly ==
    /\ Cardinality(ListedTags) = 32
    /\ Called(reserved) => reserved = Bool(res.id \in ListedTags)
    /\ (Called(res) /\ slice \in ListedTags) => res = Ok(slice)
    /\ (Called(reserved) /\ slice \in {<<70,79,82,48>>, <<102,111,114,109>>,
                                       <<67,65,84,48>>, <<80,82,79,32>>})
           => reserved = Bool(FALSE)

\* four spaces: a table entry, accepted and reserved
C6_Witness == slice = <<32,32,32,32>> /\ reserved = Bool(TRUE)

\* C7: an identifier ChunkId::new returns holds four bytes in [0x20, 0x7E],
\* so to_str() never panics and always has length 4
C7_ToStrNeverFails ==
    /\ res.tag = "Ok" => Len(res.id) = 4 /\ \A i \in 1..4 : InRange(res.id[i])
    /\ Called(text) => text.tag = "Str" /\ Len(text.bytes) = 4

\* "~~~~": every byte at the upper end of the range
C7_Witness == slice = <<126,126,126,126>> /\ text.tag = "Str"

\* the value of a string of decimal digits
RECURSIVE DecValue(_)
DecValue(ds) ==
    IF Len(ds) = 0 THEN 0
    ELSE 10 * DecValue(SubSeq(ds, 1, Len(ds) - 1)) + (ds[Len(ds)] - 48)

\* digits only, no leading zero unless the number is 0 itself
IsDecimal(ds) ==
    /\ Len(ds) >= 1 /\ Len(ds) <= 10
    /\ \A i \in 1..Len(ds) : ds[i] >= 48 /\ ds[i] <= 57
    /\ Len(ds) > 1 => ds[1] # 48

\* C8: a Chunk renders as Chunk "XXXX". Size N bytes, XXXX the identifier's
\* four characters and N the declared size in decimal, whatever the view is
\* ("data", 0, empty view: Chunk "data". Size 0 bytes)
C8_Display ==
    Called(shown) =>
        /\ shown.tag = "Str"
        /\ LET b == shown.bytes
               n == Len(b)
           IN  /\ n >= 26
               /\ SubSeq(b, 1, 7) = <<67,104,117,110,107,32,34>>
               /\ SubSeq(b, 8, 11) = First4(slice)
               /\ SubSeq(b, 12, 19) = <<34,46,32,83,105,122,101,32>>
               /\ IsDecimal(SubSeq(b, 20, n - 6))
               /\ DecValue(SubSeq(b, 20, n - 6)) = size
               /\ SubSeq(b, n - 5, n) = <<32,98,121,116,101,115>>
        /\ (slice = <<100,97,116,97>> /\ size = 0 /\ data = <<>>) =>
               shown = Str(<<67,104,117,110,107,32,34, 100,97,116,97,
                             34,46,32,83,105,122,101,32, 48, 32,98,121,116,101,115>>)

\* "abc " with its trailing space, declared size 12 in a view of 130 bytes
C8_Witness ==
    /\ slice = <<97,98,99,32>> /\ size = 12 /\ Len(data) = 130
    /\ shown.tag = "Str"

\* C9: every Chunk that Chunk::new returns has 0 <= len() <= length(data):
\* a negative declared size converts to a usize above any view's length, so
\* Chunk::new returns no value for it (src/lib.rs and src/chunk.rs alike)
C9_NegativeSizeRejected ==
    /\ chunk.tag = "Some" => 0 <= Chunk_len(chunk) /\ Chunk_len(chunk) <= Len(chunk.data)
    /\ chunk2.tag = "Some" => 0 <= chunk2.size /\ chunk2.size <= Len(chunk2.data)
    /\ Called(len) => 0 <= len.val /\ len.val <= Len(data)
    /\ (size < 0 /\ Called(chunk)) => chunk = None
    /\ (size < 0 /\ Called(chunk2)) => chunk2 = None

\* -130 with a view of 130 bytes, on a 32-bit target
C9_Witness ==
    /\ size = -130 /\ Len(data) = 130 /\ usize_bits = 32
    /\ chunk = None /\ chunk2 = None

\* C10: ChunkId::new of src/lib.rs and of src/chunkid.rs return the same
\* outcome for every source, and is_reserved() answers the same in both
C10_CopiesAgree ==
    /\ (Called(res) /\ Called(res2)) => res = res2
    /\ (Called(reserved) /\ Called(reserved2)) => reserved = reserved2

\* "CAT ": reserved in both
C10_Witness ==
    /\ slice = <<67,65,84,32>>
    /\ reserved = Bool(TRUE) /\ reserved2 = Bool(TRUE)

====
